---- MODULE Spec2Model ----
(***************************************************************************)
(* The timetable viewer: App (src/timetable/src/App.jsx) fetches a         *)
(* schedule as JSON and holds it in React state; Timetable                 *)
(* (src/timetable/src/components/Timetable.jsx) turns the held payload     *)
(* into one 5 x 5 grid per group and renders it as a table.                *)
(*                                                                         *)
(* JavaScript strings that the code inspects (object keys, course_type)    *)
(* are sequences of one-character strings, so that key ordering and        *)
(* split('_') are computed, not assumed.  JavaScript arrays are functions  *)
(* on 0 .. length-1, so that the indices are the source's indices.         *)
(***************************************************************************)
EXTENDS Integers, Sequences, FiniteSets, TLC

VARIABLES
  schedule,   \* App: the React state of useState()
  calls,      \* App: the getSchedule() invocations, each at its await
  view,       \* App: the element tree of the last render
  body,       \* Timetable harness: members of the JSON body the endpoint sends
  data,       \* Timetable harness: the `data` prop
  out         \* Timetable harness: <<>> before the mount, then <<render>>

appVars == <<schedule, calls, view>>
ttVars == <<body, data, out>>
vars == <<schedule, calls, view, body, data, out>>

-----------------------------------------------------------------------------
(* Bounds of the model *)

MaxClicks == 3     \* 'Get Schedule' clicks in one behaviour
MaxMembers == 5    \* groups + courses + sessions in one JSON body

-----------------------------------------------------------------------------
(* JavaScript values *)

\* null, and an empty array slot: both falsy
Null == <<>>

Undefined == [type |-> "undefined", entries |-> <<>>]
JsonNull == [type |-> "null", entries |-> <<>>]
Object(entries) == [type |-> "object", entries |-> entries]

\* ToBoolean of the values above: objects are truthy, undefined and null falsy
Truthy(v) == v.type = "object"

DigitVal ==
  ("0" :> 0) @@ ("1" :> 1) @@ ("2" :> 2) @@ ("3" :> 3) @@ ("4" :> 4) @@
  ("5" :> 5) @@ ("6" :> 6) @@ ("7" :> 7) @@ ("8" :> 8) @@ ("9" :> 9)

\* A property key that is an array index: a canonical decimal numeral
\* (the keys modelled stay far below the 2^32 - 2 limit of array indices)
IsArrayIndex(key) ==
  /\ Len(key) >= 1
  /\ \A i \in 1..Len(key) : key[i] \in DOMAIN DigitVal
  /\ (Len(key) = 1 \/ key[1] # "0")

RECURSIVE ToNumber(_)
ToNumber(key) ==
  IF key = <<>> THEN 0
  ELSE 10 * ToNumber(SubSeq(key, 1, Len(key) - 1)) + DigitVal[key[Len(key)]]

\* OrdinaryOwnPropertyKeys: a new key k1 is listed before the existing key k2
\* iff k1 is an array index and k2 is a larger index or no index at all
KeyBefore(k1, k2) ==
  /\ IsArrayIndex(k1)
  /\ (~IsArrayIndex(k2) \/ ToNumber(k1) < ToNumber(k2))

\* the same, were own keys listed in plain insertion order
ObjectSet_insertionOrder(entries, key, value) ==
  IF \E i \in 1..Len(entries) : entries[i].key = key
  THEN [i \in 1..Len(entries) |->
          IF entries[i].key = key THEN [key |-> key, value |-> value]
          ELSE entries[i]]
  ELSE Append(entries, [key |-> key, value |-> value])

\* Defining property `key` on an object whose own entries, in
\* Object.entries order, are `entries`: an existing key keeps its place and
\* takes the new value (JSON.parse: the last duplicate wins); a new array
\* index goes among the indices in ascending order, another new key last.
ObjectSet(entries, key, value) ==
  IF \E i \in 1..Len(entries) : entries[i].key = key
  THEN [i \in 1..Len(entries) |->
          IF entries[i].key = key THEN [key |-> key, value |-> value]
          ELSE entries[i]]
  ELSE LET n == Cardinality({i \in 1..Len(entries) :
                               ~KeyBefore(key, entries[i].key)})
       IN SubSeq(entries, 1, n) \o <<[key |-> key, value |-> value]>>
            \o SubSeq(entries, n + 1, Len(entries))

\* JSON.parse of a group's object text: course name -> array of sessions
RECURSIVE ParseCourses(_)
ParseCourses(members) ==
  IF members = <<>> THEN <<>>
  ELSE LET n == Len(members)
       IN ObjectSet(ParseCourses(SubSeq(members, 1, n - 1)),
                    members[n].key, members[n].value)

\* JSON.parse of the payload's object text: group key -> group object
RECURSIVE ParseGroups(_)
ParseGroups(members) ==
  IF members = <<>> THEN <<>>
  ELSE LET n == Len(members)
       IN ObjectSet(ParseGroups(SubSeq(members, 1, n - 1)),
                    members[n].key, Object(ParseCourses(members[n].value)))

\* response.json(): rejects on a body that is no JSON text
JSONParse(text) ==
  CASE text.kind = "object" ->
         [ok |-> TRUE, value |-> Object(ParseGroups(text.members))]
    [] text.kind = "null" -> [ok |-> TRUE, value |-> JsonNull]
    [] OTHER -> [ok |-> FALSE, value |-> Undefined]

\* String.prototype.split with a one-character separator
RECURSIVE Split(_, _)
Split(str, sep) ==
  IF \A i \in 1..Len(str) : str[i] # sep THEN <<str>>
  ELSE LET i == CHOOSE j \in 1..Len(str) :
                  str[j] = sep /\ \A k \in 1..(j - 1) : str[k] # sep
       IN <<SubSeq(str, 1, i - 1)>> \o Split(SubSeq(str, i + 1, Len(str)), sep)

\* arr[i] = v on an array: an index past the end grows the array, leaving
\* empty slots; a negative i defines a non-index property and no element
ArraySet(arr, i, v) ==
  IF i < 0 THEN arr
  ELSE [j \in (DOMAIN arr) \cup (0..i) |->
          IF j = i THEN v ELSE IF j \in DOMAIN arr THEN arr[j] ELSE Null]

-----------------------------------------------------------------------------
(* Timetable.jsx *)

days == <<"Sunday", "Monday", "Tuesday", "Wednesday", "Thursday">>
timeSlots ==
  <<"8:30-10:00", "10:10-11:40", "11:45-13:15", "13:20-14:50", "15:00-16:30">>

\* Array(5).fill(Array(5).fill(null)): one row object shared by all days
NewTimetable_sharedRow ==
  [rows |-> [dayIndex \in 0..(Len(days) - 1) |-> 0],
   heap |-> [ref \in 0..(Len(days) - 1) |->
               [slotIndex \in 0..(Len(timeSlots) - 1) |-> Null]],
   thrown |-> FALSE]

\* Array(days.length).fill().map(() => Array(timeSlots.length).fill(null)):
\* rows[dayIndex] is a reference to a row array of its own in the heap
NewTimetable ==
  [rows |-> [dayIndex \in 0..(Len(days) - 1) |-> dayIndex],
   heap |-> [ref \in 0..(Len(days) - 1) |->
               [slotIndex \in 0..(Len(timeSlots) - 1) |-> Null]],
   thrown |-> FALSE]

\* timetable[dayIndex][slotIndex] = v; a TypeError when timetable[dayIndex]
\* is undefined
StoreCell(tt, dayIndex, slotIndex, v) ==
  IF dayIndex \notin DOMAIN tt.rows THEN [tt EXCEPT !.thrown = TRUE]
  ELSE [tt EXCEPT !.heap[tt.rows[dayIndex]] = ArraySet(@, slotIndex, v)]

\* the session handler with `<=` for `<` in both upper bounds
PlaceSession_offByOne(tt, courseName, session) ==
  LET dayIndex == session.day - 1
      slotIndex == session.slot - 1
  IN IF tt.thrown THEN tt
     ELSE IF /\ dayIndex >= 0 /\ dayIndex <= Len(days)
             /\ slotIndex >= 0 /\ slotIndex <= Len(timeSlots)
          THEN StoreCell(tt, dayIndex, slotIndex,
                         <<[courseName |-> courseName,
                            courseType |-> session.course_type,
                            teacherId |-> session.teacher_id]>>)
          ELSE tt

\* the session handler keeping an occupied cell (first write wins)
PlaceSession_keepFirst(tt, courseName, session) ==
  LET dayIndex == session.day - 1
      slotIndex == session.slot - 1
  IN IF tt.thrown THEN tt
     ELSE IF /\ dayIndex >= 0 /\ dayIndex < Len(days)
             /\ slotIndex >= 0 /\ slotIndex < Len(timeSlots)
             /\ tt.heap[tt.rows[dayIndex]][slotIndex] = Null
          THEN StoreCell(tt, dayIndex, slotIndex,
                         <<[courseName |-> courseName,
                            courseType |-> session.course_type,
                            teacherId |-> session.teacher_id]>>)
          ELSE tt

\* sessions.forEach(session => { ... }): one session
PlaceSession(tt, courseName, session) ==
  LET dayIndex == session.day - 1
      slotIndex == session.slot - 1
  IN IF tt.thrown THEN tt
     ELSE IF /\ dayIndex >= 0 /\ dayIndex < Len(days)
             /\ slotIndex >= 0 /\ slotIndex < Len(timeSlots)
          THEN StoreCell(tt, dayIndex, slotIndex,
                         <<[courseName |-> courseName,
                            courseType |-> session.course_type,
                            teacherId |-> session.teacher_id]>>)
          ELSE tt

\* sessions.forEach over one course's list, in list order
RECURSIVE PlaceSessions(_, _, _)
PlaceSessions(tt, courseName, sessions) ==
  IF sessions = <<>> THEN tt
  ELSE PlaceSessions(PlaceSession(tt, courseName, Head(sessions)),
                     courseName, Tail(sessions))

\* Object.entries(groupCourses).forEach, in Object.entries order
RECURSIVE PlaceCourses(_, _)
PlaceCourses(tt, courseEntries) ==
  IF courseEntries = <<>> THEN tt
  ELSE PlaceCourses(PlaceSessions(tt, Head(courseEntries).key,
                                  Head(courseEntries).value),
                    Tail(courseEntries))

\* cell.courseType.split('_')[0]
SubTypeLabel_firstPart(courseType) == Split(courseType, "_")[1]

\* {cell.courseType.split('_')[1]}: element 1 of the parts; React renders
\* the undefined of a missing element as no text
SubTypeLabel(courseType) ==
  LET parts == Split(courseType, "_")
  IN IF Len(parts) >= 2 THEN parts[2] ELSE <<>>

\* {cell ? <div className="course-entry">...</div> : null}
RenderCell(cell) ==
  IF cell # Null
  THEN <<[courseName |-> cell[1].courseName,
          subType |-> SubTypeLabel(cell[1].courseType),
          teacher |-> cell[1].teacherId]>>
  ELSE Null

\* <tbody> read with the indices swapped: timetable[slotIndex][dayIndex]
RenderBody_transposed(grid) ==
  [slotIndex \in 0..(Len(timeSlots) - 1) |->
     [time |-> timeSlots[slotIndex + 1],
      cells |-> [dayIndex \in 0..(Len(days) - 1) |->
                   RenderCell(grid[slotIndex][dayIndex])]]]

\* <tbody>: one <tr> per time slot, in it one <td> per day
RenderBody(grid) ==
  [slotIndex \in 0..(Len(timeSlots) - 1) |->
     [time |-> timeSlots[slotIndex + 1],
      cells |-> [dayIndex \in 0..(Len(days) - 1) |->
                   RenderCell(grid[dayIndex][slotIndex])]]]

\* the callback of Object.entries(data).map: one group's section.
\* `timetable` is the populated grid as read through its row references.
GroupSection(groupNumber, groupCourses) ==
  LET tt == PlaceCourses(NewTimetable, groupCourses.entries)
      grid == [dayIndex \in DOMAIN tt.rows |-> tt.heap[tt.rows[dayIndex]]]
  IN [groupNumber |-> groupNumber,
      timetable |-> grid,
      thead |-> days,
      tbody |-> IF tt.thrown THEN <<>> ELSE RenderBody(grid),
      thrown |-> tt.thrown]

\* the component rendering only the groups that have a course
Timetable_skipEmpty(d) ==
  LET kept == SelectSeq(d.entries, LAMBDA e : e.value.entries # <<>>)
      sections == [i \in 1..Len(kept) |->
                     GroupSection(kept[i].key, kept[i].value)]
  IN [ok |-> TRUE, groups |-> sections]

\* The component: Object.entries(data).map(...).  Object.entries throws a
\* TypeError on undefined and null; an exception in a callback ends the
\* render without output.
Timetable(d) ==
  IF d.type # "object" THEN [ok |-> FALSE, groups |-> <<>>]
  ELSE LET sections == [i \in 1..Len(d.entries) |->
                          GroupSection(d.entries[i].key, d.entries[i].value)]
           ok == \A i \in 1..Len(sections) : ~sections[i].thrown
       IN [ok |-> ok, groups |-> IF ok THEN sections ELSE <<>>]

-----------------------------------------------------------------------------
(* The payloads Timetable is mounted with: any JSON body of at most        *)
(* MaxMembers members over the pools below, as response.json() parses it.  *)

\* group keys: two array indices (numeric order differs from text order)
\* and two other keys
GroupKeys == {<<"2">>, <<"1", "0">>, <<"b">>, <<"a">>}

\* course names: a free-text name and a numeral
CourseNames == {<<"S">>, <<"1">>}

Session(day, slot, teacher, type) ==
  [course_type |-> type, day |-> day, slot |-> slot, teacher_id |-> teacher]

\* sessions: two that collide in cell [0][0], two that collide in [4][1],
\* and one out of range on each side of each bound
Sessions ==
  { Session(1, 1, 1, <<"S", "_", "l">>),
    Session(1, 1, 2, <<"S", "_", "t", "_", "1">>),
    Session(Len(days), 2, 5, <<"S">>),
    Session(Len(days), 2, 1, <<"_", "l">>),
    Session(0, 1, 1, <<"S", "_", "l">>),
    Session(Len(days) + 1, 1, 1, <<"S", "_", "l">>),
    Session(1, 0, 1, <<"S", "_", "l">>),
    Session(1, Len(timeSlots) + 1, 1, <<"S", "_", "l">>) }

RECURSIVE SumLens(_)
SumLens(seq) ==
  IF seq = <<>> THEN 0 ELSE Len(Head(seq).value) + SumLens(Tail(seq))

RECURSIVE MemberCount(_)
MemberCount(members) ==
  IF members = <<>> THEN 0
  ELSE 1 + Len(Head(members).value) + SumLens(Head(members).value)
         + MemberCount(Tail(members))

\* the endpoint writes the next group member of the body
AddGroup(k) ==
  /\ out = <<>>
  /\ MemberCount(body) < MaxMembers
  /\ body' = Append(body, [key |-> k, value |-> <<>>])
  /\ UNCHANGED <<data, out, appVars>>

\* the endpoint writes the next course member of the last group
AddCourse(name) ==
  /\ out = <<>>
  /\ body # <<>>
  /\ MemberCount(body) < MaxMembers
  /\ body' = [body EXCEPT ![Len(body)].value =
                Append(@, [key |-> name, value |-> <<>>])]
  /\ UNCHANGED <<data, out, appVars>>

\* the endpoint writes the next session of the last course
AddSession(s) ==
  /\ out = <<>>
  /\ body # <<>>
  /\ body[Len(body)].value # <<>>
  /\ MemberCount(body) < MaxMembers
  /\ LET g == Len(body)
         c == Len(body[g].value)
     IN body' = [body EXCEPT ![g].value[c].value = Append(@, s)]
  /\ UNCHANGED <<data, out, appVars>>

\* response.json() parses the body, <Timetable data={...}/> renders it
Mount ==
  /\ out = <<>>
  /\ data' = JSONParse([kind |-> "object", members |-> body]).value
  /\ out' = <<Timetable(data')>>
  /\ UNCHANGED <<body, appVars>>

-----------------------------------------------------------------------------
(* App.jsx *)

\* the sample payload of App.jsx, by group
SecurityCourse ==
  [key |-> <<"S">>,
   value |-> << Session(1, 1, 1, <<"S", "_", "l">>),
                Session(1, 2, 1, <<"S", "_", "t">>) >>]
ResearchCourse ==
  [key |-> <<"R">>, value |-> << Session(2, 5, 5, <<"R", "_", "l">>) >>]

NoBody == [kind |-> "none", members |-> <<>>]

\* what the endpoint may answer: a body that is no JSON, null, {}, and
\* each group of the sample payload
Bodies ==
  { [kind |-> "garbage", members |-> <<>>],
    [kind |-> "null", members |-> <<>>],
    [kind |-> "object", members |-> <<>>],
    [kind |-> "object",
     members |-> <<[key |-> <<"1">>, value |-> <<SecurityCourse>>]>>],
    [kind |-> "object",
     members |-> <<[key |-> <<"2">>, value |-> <<ResearchCourse>>]>>] }

\* the component rendering <Timetable> whatever the state holds
AppRender_unguarded(s) == [button |-> TRUE, timetable |-> <<Timetable(s)>>]

\* return ( schedule ? <div><button/><Timetable data={schedule}/></div>
\*                   : <button/> )
AppRender(s) ==
  [button |-> TRUE,
   timetable |-> IF Truthy(s) THEN <<Timetable(s)>> ELSE <<>>]

\* onClick={() => getSchedule()}: the call starts and awaits fetch(...)
Click ==
  /\ view.button
  /\ Len(calls) < MaxClicks
  /\ calls' = Append(calls, [pc |-> "fetch", body |-> NoBody])
  /\ UNCHANGED <<schedule, view, ttVars>>

\* fetch(...) resolves with a response; the call awaits response.json()
FetchResolve(i, b) ==
  /\ calls[i].pc = "fetch"
  /\ calls' = [calls EXCEPT ![i] = [pc |-> "json", body |-> b]]
  /\ UNCHANGED <<schedule, view, ttVars>>

\* fetch(...) rejects: the async function ends at line 39
FetchReject(i) ==
  /\ calls[i].pc = "fetch"
  /\ calls' = [calls EXCEPT ![i].pc = "rejected"]
  /\ UNCHANGED <<schedule, view, ttVars>>

\* a completion that merges the parsed body into the held schedule
JsonResolve_merge(i) ==
  /\ calls[i].pc = "json"
  /\ JSONParse(calls[i].body).ok
  /\ LET v == JSONParse(calls[i].body).value
     IN schedule' = IF Truthy(schedule) /\ Truthy(v)
                    THEN Object(schedule.entries \o v.entries)
                    ELSE v
  /\ view' = AppRender(schedule')
  /\ calls' = [calls EXCEPT ![i].pc = "done"]
  /\ UNCHANGED ttVars

\* response.json() resolves: setSchedule(time_table), and React renders
\* App again with the new state
JsonResolve(i) ==
  /\ calls[i].pc = "json"
  /\ JSONParse(calls[i].body).ok
  /\ schedule' = JSONParse(calls[i].body).value
  /\ view' = AppRender(schedule')
  /\ calls' = [calls EXCEPT ![i].pc = "done"]
  /\ UNCHANGED ttVars

\* a failure path that resets the state: setSchedule(undefined)
JsonReject_reset(i) ==
  /\ calls[i].pc = "json"
  /\ ~JSONParse(calls[i].body).ok
  /\ schedule' = Undefined
  /\ view' = AppRender(schedule')
  /\ calls' = [calls EXCEPT ![i].pc = "rejected"]
  /\ UNCHANGED ttVars

\* response.json() rejects: the async function ends at line 40
JsonReject(i) ==
  /\ calls[i].pc = "json"
  /\ ~JSONParse(calls[i].body).ok
  /\ calls' = [calls EXCEPT ![i].pc = "rejected"]
  /\ UNCHANGED <<schedule, view, ttVars>>

-----------------------------------------------------------------------------
(* Specifications *)

\* useState() and the first render of App; nothing mounted in the harness
Init ==
  /\ schedule = Undefined
  /\ calls = <<>>
  /\ view = AppRender(Undefined)
  /\ body = <<>>
  /\ data = Undefined
  /\ out = <<>>

Next ==
  \/ Click
  \/ \E i \in 1..Len(calls), b \in Bodies : FetchResolve(i, b)
  \/ \E i \in 1..Len(calls) : FetchReject(i)
  \/ \E i \in 1..Len(calls) : JsonResolve(i)
  \/ \E i \in 1..Len(calls) : JsonReject(i)

Spec == Init /\ [][Next]_vars

NextTimetable ==
  \/ \E k \in GroupKeys : AddGroup(k)
  \/ \E name \in CourseNames : AddCourse(name)
  \/ \E s \in Sessions : AddSession(s)
  \/ Mount

SpecTimetable == Init /\ [][NextTimetable]_vars

-----------------------------------------------------------------------------
(* Vocabulary of the properties *)

\* the render of the mounted component
Mounted == out # <<>>
Groups == out[1].groups

\* the sessions of a group in the order the component visits them: courses
\* in Object.entries order, and in a course its sessions in list order
RECURSIVE Processed(_)
Processed(courseEntries) ==
  IF courseEntries = <<>> THEN <<>>
  ELSE [j \in 1..Len(Head(courseEntries).value) |->
          [courseName |-> Head(courseEntries).key,
           session |-> Head(courseEntries).value[j]]]
       \o Processed(Tail(courseEntries))

\* the visited sessions of the i-th group of the payload
Visited(i) == Processed(data.entries[i].value.entries)

InRange(s) == s.day >= 1 /\ s.day <= 5 /\ s.slot >= 1 /\ s.slot <= 5

CellOf(p) ==
  <<[courseName |-> p.courseName,
     courseType |-> p.session.course_type,
     teacherId |-> p.session.teacher_id]>>

Max(S) == CHOOSE x \in S : \A y \in S : y <= x

\* the positions in Visited(i) of the sessions of day d+1 and slot s+1
Hits(i, d, s) ==
  {j \in 1..Len(Visited(i)) :
     Visited(i)[j].session.day = d + 1 /\ Visited(i)[j].session.slot = s + 1}

HasUnderscore(str) == \E i \in 1..Len(str) : str[i] = "_"
FirstUnderscore(str) ==
  CHOOSE i \in 1..Len(str) : str[i] = "_" /\ \A k \in 1..(i - 1) : str[k] # "_"

\* everything after the first underscore; empty without an underscore
AfterFirstUnderscore(str) ==
  IF HasUnderscore(str) THEN SubSeq(str, FirstUnderscore(str) + 1, Len(str))
  ELSE <<>>

\* what lies between the first underscore and the next one (or the end)
UpToNextUnderscore(str) ==
  LET rest == AfterFirstUnderscore(str)
  IN IF HasUnderscore(rest) THEN SubSeq(rest, 1, FirstUnderscore(rest) - 1)
     ELSE rest

\* the group keys of the JSON body in the order of their first appearance
TextKeys == [i \in 1..Len(body) |-> body[i].key]
FirstAt(k) == CHOOSE i \in 1..Len(body) :
                body[i].key = k /\ \A j \in 1..(i - 1) : body[j].key # k
RECURSIVE Dedup(_)
Dedup(seq) ==
  IF seq = <<>> THEN <<>>
  ELSE LET front == Dedup(SubSeq(seq, 1, Len(seq) - 1))
           x == seq[Len(seq)]
       IN IF \E i \in 1..Len(front) : front[i] = x THEN front
          ELSE Append(front, x)
RenderedKeys == [i \in 1..Len(Groups) |-> Groups[i].groupNumber]

-----------------------------------------------------------------------------
(* Properties of Timetable, checked under SpecTimetable *)

\* C1 (last write wins): when two or more sessions of a group have the same
\* in-range (day, slot), the cell [day-1][slot-1] of the group's grid holds
\* exactly the courseName, courseType and teacherId of the one visited last.
LastWriteWins ==
  Mounted =>
    /\ out[1].ok
    /\ \A i \in 1..Len(data.entries) : \A d \in 0..4, s \in 0..4 :
         Cardinality(Hits(i, d, s)) >= 2 =>
           Groups[i].timetable[d][s] = CellOf(Visited(i)[Max(Hits(i, d, s))])

\* C1 witness: a rendered group in which two courses put different sessions
\* on one cell
LastWriteWinsWitness ==
  /\ Mounted
  /\ \E i \in 1..Len(data.entries) : \E d \in 0..4, s \in 0..4 :
       \E j, k \in Hits(i, d, s) :
         /\ Visited(i)[j].courseName # Visited(i)[k].courseName
         /\ Visited(i)[j].session.teacher_id # Visited(i)[k].session.teacher_id
         /\ Visited(i)[j].session.course_type # Visited(i)[k].session.course_type

\* C2 (bounds exclusion): with a session out of range in the payload the
\* render does not fail, every cell written (in any grid, at any index)
\* comes from an in-range session of its group at that day and slot, and
\* every in-range session has its cell populated.
BoundsExclusion ==
  (/\ Mounted
   /\ \E i \in 1..Len(data.entries) : \E j \in 1..Len(Visited(i)) :
        ~InRange(Visited(i)[j].session))
  =>
    /\ out[1].ok
    /\ Len(Groups) = Len(data.entries)
    /\ \A i \in 1..Len(Groups) :
         LET grid == Groups[i].timetable
         IN /\ \A d \in DOMAIN grid : \A s \in DOMAIN grid[d] :
                 grid[d][s] # Null =>
                   \E j \in 1..Len(Visited(i)) :
                     /\ InRange(Visited(i)[j].session)
                     /\ Visited(i)[j].session.day = d + 1
                     /\ Visited(i)[j].session.slot = s + 1
                     /\ grid[d][s] = CellOf(Visited(i)[j])
            /\ \A j \in 1..Len(Visited(i)) :
                 InRange(Visited(i)[j].session) =>
                   grid[Visited(i)[j].session.day - 1]
                       [Visited(i)[j].session.slot - 1] # Null

\* C2 witness: a group rendered from a session of day 6 followed by a
\* session in range
BoundsExclusionWitness ==
  /\ Mounted
  /\ \E i \in 1..Len(data.entries) : \E j, k \in 1..Len(Visited(i)) :
       /\ j < k
       /\ Visited(i)[j].session.day = 6
       /\ InRange(Visited(i)[k].session)
       /\ Groups[i].timetable[Visited(i)[k].session.day - 1]
                             [Visited(i)[k].session.slot - 1] # Null

\* C3 as stated (sub-type is the whole remainder): the label of every
\* populated cell is all of course_type after its first underscore.
SubTypeIsRemainder ==
  Mounted =>
    \A i \in 1..Len(Groups) : \A s \in 0..4, d \in 0..4 :
      Groups[i].timetable[d][s] # Null =>
        Groups[i].tbody[s].cells[d][1].subType
          = AfterFirstUnderscore(Groups[i].timetable[d][s][1].courseType)

\* C3 amended (sub-type is the second part): the label of every populated
\* cell is what lies between the first underscore of course_type and the
\* next underscore or the end, and is empty without an underscore.
SubTypeIsSecondPart ==
  Mounted =>
    \A i \in 1..Len(Groups) : \A s \in 0..4, d \in 0..4 :
      Groups[i].timetable[d][s] # Null =>
        /\ Groups[i].tbody[s].cells[d] # Null
        /\ Groups[i].tbody[s].cells[d][1].subType
             = UpToNextUnderscore(Groups[i].timetable[d][s][1].courseType)

\* C3 witness: a populated cell whose course_type has two underscores, and
\* one whose course_type has none
SubTypeWitness ==
  /\ Mounted
  /\ \E i \in 1..Len(Groups) : \E s \in 0..4, d \in 0..4 :
       /\ Groups[i].timetable[d][s] # Null
       /\ HasUnderscore(
            AfterFirstUnderscore(Groups[i].timetable[d][s][1].courseType))
  /\ \E i \in 1..Len(Groups) : \E s \in 0..4, d \in 0..4 :
       /\ Groups[i].timetable[d][s] # Null
       /\ ~HasUnderscore(Groups[i].timetable[d][s][1].courseType)

\* C4 as stated (input order): the rendered groups follow the order in which
\* the group keys appear in the JSON body.
GroupOrderIsTextOrder ==
  Mounted => RenderedKeys = Dedup(TextKeys)

\* C4 amended (own-key order): the rendered groups are the body's group
\* keys, each once; those that are array indices come first, in ascending
\* numeric order, and the others follow in the order of first appearance.
GroupOrderIsOwnKeyOrder ==
  Mounted =>
    /\ {RenderedKeys[i] : i \in 1..Len(RenderedKeys)}
         = {TextKeys[i] : i \in 1..Len(TextKeys)}
    /\ \A a, b \in 1..Len(RenderedKeys) :
         a < b =>
           /\ RenderedKeys[a] # RenderedKeys[b]
           /\ IsArrayIndex(RenderedKeys[b]) =>
                /\ IsArrayIndex(RenderedKeys[a])
                /\ ToNumber(RenderedKeys[a]) < ToNumber(RenderedKeys[b])
           /\ ~IsArrayIndex(RenderedKeys[a]) =>
                FirstAt(RenderedKeys[a]) < FirstAt(RenderedKeys[b])

\* C4 witness: groups rendered in another order than the body lists them,
\* an index key after a non-index key in the body
GroupOrderWitness ==
  /\ Mounted
  /\ Len(body) >= 2
  /\ ~IsArrayIndex(body[1].key)
  /\ IsArrayIndex(body[2].key)
  /\ RenderedKeys # Dedup(TextKeys)

\* C5 (completeness): exactly one grid per group key of the body and none
\* for another key; a group without an in-range session (no course, no
\* session, or only out-of-range ones) has all cells empty.
Completeness ==
  Mounted =>
    /\ out[1].ok
    /\ {RenderedKeys[i] : i \in 1..Len(RenderedKeys)}
         = {TextKeys[i] : i \in 1..Len(TextKeys)}
    /\ Len(Groups) = Cardinality({TextKeys[i] : i \in 1..Len(TextKeys)})
    /\ \A i \in 1..Len(Groups) :
         LET g == CHOOSE n \in 1..Len(data.entries) :
                    data.entries[n].key = Groups[i].groupNumber
         IN (\A j \in 1..Len(Visited(g)) : ~InRange(Visited(g)[j].session))
              => \A d \in 0..4, s \in 0..4 : Groups[i].timetable[d][s] = Null

\* C5 witness: a render of two groups, one without courses and one whose
\* only session is out of range
CompletenessWitness ==
  /\ Mounted
  /\ Len(Groups) = 2
  /\ \E i \in 1..Len(data.entries) : data.entries[i].value.entries = <<>>
  /\ \E i \in 1..Len(data.entries) :
       /\ Visited(i) # <<>>
       /\ \A j \in 1..Len(Visited(i)) : ~InRange(Visited(i)[j].session)

\* C6 (exact population): cell [d][s] of a group's grid is non-empty if and
\* only if a session of that very group has day d+1 and slot s+1; so a
\* session fills no other cell of its grid and no cell of another grid.
ExactPopulation ==
  Mounted =>
    /\ Len(Groups) = Len(data.entries)
    /\ \A i \in 1..Len(Groups) : \A d \in 0..4, s \in 0..4 :
         Groups[i].timetable[d][s] # Null <=> Hits(i, d, s) # {}

\* C6 witness: two groups, the one's only session in range, the other's
\* grid empty, and 24 empty cells beside the one populated
ExactPopulationWitness ==
  /\ Mounted
  /\ Len(Groups) = 2
  /\ \E i, k \in 1..2 :
       /\ Len(Visited(i)) = 1
       /\ InRange(Visited(i)[1].session)
       /\ Cardinality({c \in (0..4) \X (0..4) :
                         Groups[i].timetable[c[1]][c[2]] = Null}) = 24
       /\ \A d \in 0..4, s \in 0..4 : Groups[k].timetable[d][s] = Null

\* C7 (fixed dimensions): every grid has the 5 day rows 0..4 of the 5 slot
\* cells 0..4; the table has the 5 slot rows of 5 day cells, and its cell in
\* row s, column d shows grid cell [d][s].
FixedDimensions ==
  Mounted =>
    \A i \in 1..Len(Groups) :
      /\ DOMAIN Groups[i].timetable = 0..4
      /\ \A d \in 0..4 : DOMAIN Groups[i].timetable[d] = 0..4
      /\ DOMAIN Groups[i].tbody = 0..4
      /\ \A s \in 0..4 :
           /\ DOMAIN Groups[i].tbody[s].cells = 0..4
           /\ \A d \in 0..4 :
                LET cell == Groups[i].timetable[d][s]
                    td == Groups[i].tbody[s].cells[d]
                IN IF cell = Null THEN td = Null
                   ELSE /\ td # Null
                        /\ td[1].courseName = cell[1].courseName
                        /\ td[1].teacher = cell[1].teacherId

\* C7 witness: a rendered grid with a session off the diagonal, in the last
\* day row, and a session out of range in the payload
FixedDimensionsWitness ==
  /\ Mounted
  /\ \E i \in 1..Len(Groups) :
       /\ Groups[i].timetable[4][1] # Null
       /\ Groups[i].tbody[1].cells[4] # Null
       /\ \E j \in 1..Len(Visited(i)) : Visited(i)[j].session.slot = 6

-----------------------------------------------------------------------------
(* Properties of App, checked under Spec *)

Done(i) == calls[i].pc = "done"

\* C8 (payload replacement): the held schedule is unset or the whole parsed
\* body of one completed response, and the step that completes a fetch
\* leaves exactly that response's parsed body as the held schedule.
PayloadReplacement ==
  /\ [](\/ schedule = Undefined
        \/ \E i \in 1..Len(calls) :
             Done(i) /\ schedule = JSONParse(calls[i].body).value)
  /\ [][\A i \in 1..Len(calls) :
          (calls[i].pc = "json" /\ calls'[i].pc = "done")
            => schedule' = JSONParse(calls[i].body).value]_vars

\* C8 witness: two overlapping fetches of different payloads have both
\* completed, the first one last, and its body is the one held
PayloadReplacementWitness ==
  /\ Len(calls) >= 2
  /\ Done(1) /\ Done(2)
  /\ calls[1].body.members # <<>> /\ calls[2].body.members # <<>>
  /\ calls[1].body # calls[2].body
  /\ schedule = JSONParse(calls[1].body).value

\* C9 (failed fetch): a step in which a request fails (fetch rejects, or the
\* body is no JSON) leaves the held schedule and the view as they were, and
\* after a failure the button is there and a click starts a request.
FailedFetchKeepsState ==
  /\ [][\A i \in 1..Len(calls) :
          (calls[i].pc # "rejected" /\ calls'[i].pc = "rejected")
            => (schedule' = schedule /\ view' = view)]_vars
  /\ []((\E i \in 1..Len(calls) : calls[i].pc = "rejected")
          => (view.button /\ (Len(calls) < MaxClicks => ENABLED Click)))

\* C9 witness: a schedule is held and shown, a later request failed on its
\* body, and a request clicked after it is in flight
FailedFetchWitness ==
  /\ Len(calls) = 3
  /\ Done(1) /\ Truthy(schedule) /\ view.timetable # <<>>
  /\ calls[2].pc = "rejected" /\ calls[2].body.kind = "garbage"
  /\ calls[3].pc = "fetch"

\* C10 (render guard): Timetable is rendered iff the held schedule is
\* truthy, never from undefined or null, not before a fetch has completed;
\* the button is rendered in every state.
RenderGuard ==
  /\ view.button
  /\ view.timetable # <<>> <=> Truthy(schedule)
  /\ view.timetable # <<>> =>
       /\ view.timetable[1].ok
       /\ \E i \in 1..Len(calls) : Done(i)

\* C10 witness: a completed fetch whose body is null: the state is set, yet
\* falsy, and only the button is shown
RenderGuardWitness ==
  /\ \E i \in 1..Len(calls) : Done(i) /\ calls[i].body.kind = "null"
  /\ schedule = JsonNull
  /\ view.timetable = <<>>

====
